---- MODULE Spec2Model ----
(***************************************************************************)
(* The email-to-SQL webhook of main.py as a state machine.                 *)
(*                                                                         *)
(* webhook is a coroutine whose only await is "await request.json()";      *)
(* everything after it (call_gemini, run_sql, visualise_and_save, the      *)
(* response) is blocking code, so on the single event loop started by      *)
(* run_with_ngrok.py the bodies of two requests never interleave: the      *)
(* model holds the request being handled in cur and lets the next one in   *)
(* once the current one has been answered.  What outlives a request is the *)
(* wall clock, the image files in the working directory and the database   *)
(* connections that were opened.                                           *)
(*                                                                         *)
(* Texts that the code edits (the model's reply, the SQL statement) are    *)
(* sequences of one-character strings.                                     *)
(***************************************************************************)
EXTENDS Integers, Sequences, FiniteSets, TLC

VARIABLES
    cur,       \* the request being handled: the locals of webhook and its callees
    reqNo,     \* number of requests received so far
    apiKey,    \* whether GEMINI_API_KEY is set in the environment
    clock,     \* datetime.now(), in whole seconds
    files,     \* image files in the working directory: name -> last writer
    wrote,     \* history: <<request, file name>> for every image written
    conns      \* database connections opened so far: id -> owner and state

vars == <<cur, reqNo, apiKey, clock, files, wrote, conns>>

-----------------------------------------------------------------------------
(* Bounds of the model *)

MaxReq == 2
MaxClock == 1
MaxRows == 11
MaxFrags == 4

(* rows[:10] if len(rows) > 10 *)
SampleCap == 10

-----------------------------------------------------------------------------
(* JSON values of the payload and Python truthiness *)

JNull == [t |-> "null"]

JStr(s) == [t |-> "str", s |-> s]

QueryFields == {"TextBody", "stripped-text", "Body"}

(* What a query field may hold: null, the empty string, or a text (one    *)
(* text per field, so that the field a query came from can be told).      *)
FieldValues(k) == {JNull, JStr(""), JStr("query in " \o k)}

(* The fields the handler reads besides the query: both there, or neither *)
OtherParts == {<<>>, [From |-> JStr("alice@example.com"), Subject |-> JStr("Orders")]}

QueryParts ==
    UNION {{d \in [K -> UNION {FieldValues(k) : k \in K}] :
                \A k \in K : d[k] \in FieldValues(k)} :
           K \in SUBSET QueryFields}

Merge(f, g) == [k \in DOMAIN f \cup DOMAIN g |-> IF k \in DOMAIN f THEN f[k] ELSE g[k]]

(* The JSON objects a client may post *)
Payloads == {Merge(q, o) : q \in QueryParts, o \in OtherParts}

(* dict.get(key): None when the key is absent *)
Get(data, k) == IF k \in DOMAIN data THEN data[k] ELSE JNull

TruthyUnlessNone(v) == v # JNull

(* bool(v) for the values above: None and "" are falsy *)
Truthy(v) == v # JNull /\ v # JStr("")

PyOrUnlessNone(a, b) == IF a # JNull THEN a ELSE b

(* a or b *)
PyOr(a, b) == IF Truthy(a) THEN a ELSE b

ExtractQuery(data) ==
    PyOr(PyOr(Get(data, "TextBody"), Get(data, "stripped-text")), Get(data, "Body"))

-----------------------------------------------------------------------------
(* str.replace(old, "") and str.strip() *)

(* The grave accent (U+0060, the character of a markdown code fence): a   *)
(* TLA+ string cannot hold it, so this one text element stands for it.    *)
BQ == "<grave>"


RECURSIVE Replace(_, _)
Replace(s, old) ==
    IF Len(s) < Len(old) THEN s
    ELSE IF SubSeq(s, 1, Len(old)) = old
         THEN Replace(SubSeq(s, Len(old) + 1, Len(s)), old)
         ELSE <<Head(s)>> \o Replace(Tail(s), old)

Whitespace == {" ", "\n", "\t", "\r"}

RECURSIVE LStrip(_)
LStrip(s) == IF s # <<>> /\ Head(s) \in Whitespace THEN LStrip(Tail(s)) ELSE s

RECURSIVE RStrip(_)
RStrip(s) ==
    IF s # <<>> /\ s[Len(s)] \in Whitespace THEN RStrip(SubSeq(s, 1, Len(s) - 1)) ELSE s

Strip(s) == RStrip(LStrip(s))

SQLITE == <<"s", "q", "l", "i", "t", "e">>
BACKTICK == <<BQ>>
SQLWORD == <<"s", "q", "l">>

SanitizeKeepTicks(text) == Strip(Replace(Replace(text, SQLITE), SQLWORD))

(* sql.replace("sqlite", "").replace(BQ, "").replace("sql", "").strip() *)
Sanitize(text) == Strip(Replace(Replace(Replace(text, SQLITE), BACKTICK), SQLWORD))

-----------------------------------------------------------------------------
(* The generative API: what a call may come back with *)

ReplyCount ==
    <<BQ, BQ, BQ, "s", "q", "l", "\n", "S", "E", "L", "E", "C", "T", " ", "C", "O",
      "U", "N", "T", "(", "*", ")", " ", "F", "R", "O", "M", " ", "O", "r", "d", "e",
      "r", "s", "\n", BQ, BQ, BQ>>

ReplyAll ==
    <<BQ, BQ, BQ, "s", "q", "l", "i", "t", "e", "\n", "S", "E", "L", "E", "C", "T",
      " ", "*", " ", "F", "R", "O", "M", " ", "O", "r", "d", "e", "r", "s", "\n", BQ,
      BQ, BQ>>

ReplyProducts ==
    <<"S", "E", "L", "E", "C", "T", " ", "*", " ", "F", "R", "O", "M", " ", "s", "q",
      "l", "_", "p", "r", "o", "d", "u", "c", "t", "s">>

ReplyDelete ==
    <<" ", "D", "E", "L", "E", "T", "E", " ", "F", "R", "O", "M", " ", "O", "r", "d",
      "e", "r", "s", "\n">>

ModelReplies == {ReplyCount, ReplyAll, ReplyProducts, ReplyDelete}

(* requests.post(...): a success with a well-formed body, a non-success    *)
(* status (raise_for_status raises), or a body without the nested path     *)
(* candidates[0].content.parts[0].text (the subscripts raise)              *)
HttpOutcomes == {"ok", "http_error", "malformed"}

-----------------------------------------------------------------------------
(* The database: what cur.execute, cur.description and cur.fetchall give *)

SqlCount ==
    <<"S", "E", "L", "E", "C", "T", " ", "C", "O", "U", "N", "T", "(", "*", ")", " ",
      "F", "R", "O", "M", " ", "O", "r", "d", "e", "r", "s">>

SqlAll ==
    <<"S", "E", "L", "E", "C", "T", " ", "*", " ", "F", "R", "O", "M", " ", "O", "r",
      "d", "e", "r", "s">>

SqlDelete ==
    <<"D", "E", "L", "E", "T", "E", " ", "F", "R", "O", "M", " ", "O", "r", "d", "e",
      "r", "s">>

RowSeq(n) == [i \in 1..n |-> i]

(* How many rows the Orders table may hold: none, or about the cap of the *)
(* row sample                                                              *)
RowCounts == {0} \cup ((SampleCap - 1)..MaxRows)

(* The outcomes of executing a statement against northwind.db.  A count    *)
(* gives one row; a SELECT of a table gives however many rows the table    *)
(* holds; a statement without a result set leaves description None; any    *)
(* other text is rejected by the driver.                                   *)
DbOutcomes(sql) ==
    IF sql = SqlCount
    THEN {[kind |-> "rows", columns |-> <<"COUNT(*)">>, rows |-> RowSeq(1)]}
    ELSE IF sql = SqlAll
    THEN {[kind |-> "rows", columns |-> <<"OrderID", "CustomerID">>, rows |-> RowSeq(n)] :
              n \in RowCounts}
    ELSE IF sql = SqlDelete
    THEN {[kind |-> "no_result_set", columns |-> <<>>, rows |-> <<>>]}
    ELSE {[kind |-> "error", columns |-> <<>>, rows |-> <<>>]}

-----------------------------------------------------------------------------
(* The handler's locals *)

(* A response: the HTTP status code and the fields of the JSON body *)
NoResponse ==
    [kind |-> "none", code |-> 0, status |-> "", error |-> "", sql |-> <<>>, rows |-> 0]

(* JSONResponse({"error": "No query found in email."}, status_code=400) *)
BadRequest ==
    [kind |-> "json", code |-> 400, status |-> "", error |-> "No query found in email.",
     sql |-> <<>>, rows |-> 0]

(* JSONResponse({"error": str(e)}, status_code=500), of the commented-out *)
(* except block                                                            *)
ServerError(e) ==
    [kind |-> "json", code |-> 500, status |-> "", error |-> e, sql |-> <<>>, rows |-> 0]

(* The exception leaves webhook: the framework answers, not this code *)
Unhandled(e) ==
    [kind |-> "unhandled", code |-> 0, status |-> "", error |-> e, sql |-> <<>>, rows |-> 0]

(* JSONResponse({"status": "ok", "sql": sql, "rows": len(rows)}) *)
Ok(sql, n) ==
    [kind |-> "json", code |-> 200, status |-> "ok", error |-> "", sql |-> sql, rows |-> n]

Fresh(id, data) ==
    [id |-> id, pc |-> "extract", data |-> data, nl_query |-> JNull,
     gen_query |-> JNull, viz_query |-> JNull,
     reply |-> <<>>, sql |-> <<>>, executed |-> <<>>, columns |-> <<>>, rows |-> <<>>,
     img_filename |-> -1, sample_rows |-> <<>>, code |-> "none",
     started |-> <<>>, returned |-> <<>>, calls |-> 0, queries |-> 0,
     response |-> NoResponse]

Idle == [Fresh(0, <<>>) EXCEPT !.pc = "idle"]

(* An exception that nothing in webhook catches (the try/except around the *)
(* pipeline is commented out).                                             *)
RaiseStructured(r, e) == [r EXCEPT !.pc = "responded", !.response = ServerError(e)]

Raise(r, e) == [r EXCEPT !.pc = "responded", !.response = Unhandled(e)]

-----------------------------------------------------------------------------
Init ==
    /\ cur = Idle
    /\ reqNo = 0
    /\ apiKey \in BOOLEAN
    /\ clock = 0
    /\ files = <<>>
    /\ wrote = {}
    /\ conns = <<>>

(* data = await request.json(): a request is taken up once the previous    *)
(* one has been answered                                                   *)
Receive ==
    /\ cur.pc \in {"idle", "responded"}
    /\ reqNo < MaxReq
    /\ \E data \in Payloads :
          cur' = Fresh(reqNo + 1, data)
    /\ reqNo' = reqNo + 1
    /\ UNCHANGED <<apiKey, clock, files, wrote, conns>>

(* sender, subject, nl_query; the 400 when no query text was found *)
Extract ==
    /\ cur.pc = "extract"
    /\ LET q == ExtractQuery(cur.data) IN
          cur' = IF ~Truthy(q)
                 THEN [cur EXCEPT !.pc = "responded", !.nl_query = q,
                                  !.response = BadRequest]
                 ELSE [cur EXCEPT !.pc = "gen", !.nl_query = q]
    /\ UNCHANGED <<reqNo, apiKey, clock, files, wrote, conns>>

(* call_gemini(nl_query): the prompt, the API call, the sanitization.      *)
(* replies is the set of texts the model may answer with.                  *)
CallGeminiWith(replies) ==
    /\ cur.pc = "gen"
    /\ LET r == [cur EXCEPT !.started = Append(@, "generate"),
                            !.gen_query = cur.nl_query] IN
          IF ~apiKey
          THEN cur' = Raise(r, "GEMINI_API_KEY not set")
          ELSE \E o \in HttpOutcomes, reply \in replies :
                  cur' = IF o # "ok"
                         THEN Raise([r EXCEPT !.calls = @ + 1], o)
                         ELSE [r EXCEPT !.calls = @ + 1,
                                        !.reply = reply,
                                        !.sql = Sanitize(reply),
                                        !.returned = Append(@, "generate"),
                                        !.pc = "exec"]
    /\ UNCHANGED <<reqNo, apiKey, clock, files, wrote, conns>>

CallGemini == CallGeminiWith(ModelReplies)

(* run_sql(sql): connect, execute, description, fetchall, close; at is    *)
(* where in webhook the call stands                                        *)
RunSqlAt(at) ==
    /\ cur.pc \in at
    /\ LET r == [cur EXCEPT !.started = Append(@, "execute"),
                            !.queries = @ + 1,
                            !.executed = cur.sql] IN
       \E res \in DbOutcomes(cur.sql) :
          IF res.kind = "error"
          THEN \* cur.execute raises: conn.close() is not reached
               /\ conns' = Append(conns, [owner |-> cur.id, open |-> TRUE])
               /\ cur' = Raise(r, "OperationalError")
          ELSE IF res.kind = "no_result_set"
          THEN \* cur.description is None: the comprehension raises TypeError
               /\ conns' = Append(conns, [owner |-> cur.id, open |-> TRUE])
               /\ cur' = Raise(r, "TypeError")
          ELSE /\ conns' = Append(conns, [owner |-> cur.id, open |-> FALSE])
               /\ cur' = [r EXCEPT !.columns = res.columns,
                                   !.rows = res.rows,
                                   !.returned = Append(@, "execute"),
                                   !.pc = "viz"]
    /\ UNCHANGED <<reqNo, apiKey, clock, files, wrote>>

RunSqlBeforeGeneration == RunSqlAt({"gen", "exec"})

(* columns, rows = run_sql(sql), after call_gemini has returned *)
RunSql == RunSqlAt({"exec"})

SampleRowsUncapped(rows) == rows

(* rows[:10] if len(rows) > 10 else rows *)
SampleRows(rows) == IF Len(rows) > SampleCap THEN SubSeq(rows, 1, SampleCap) ELSE rows

(* What running the returned code does: it saves the image under the file *)
(* name of the prompt, it finishes without saving it, it raises an        *)
(* Exception, or it raises a BaseException that is no Exception           *)
(* (SystemExit).                                                          *)
CodeBehaviours == {"saves", "returns", "raises", "exits"}

(* visualise_and_save up to the exec: the frame, the file name, and       *)
(* prompt_gemini_for_plotly_viz with its API call                         *)
Visualise ==
    /\ cur.pc = "viz"
    /\ LET r == [cur EXCEPT !.started = Append(@, "visualise"),
                            !.img_filename = clock,
                            !.sample_rows = SampleRows(cur.rows),
                            !.viz_query = cur.nl_query] IN
          IF ~apiKey
          THEN cur' = Raise(r, "GEMINI_API_KEY not set")
          ELSE \E o \in HttpOutcomes, code \in CodeBehaviours :
                  cur' = IF o # "ok"
                         THEN Raise([r EXCEPT !.calls = @ + 1], o)
                         ELSE [r EXCEPT !.calls = @ + 1, !.code = code,
                                        !.pc = "run_code"]
    /\ UNCHANGED <<reqNo, apiKey, clock, files, wrote, conns>>

(* savefig / write_image under name: the file is created or overwritten *)
Save(name, kind) ==
    /\ files' = [n \in DOMAIN files \cup {name} |->
                    IF n = name THEN [owner |-> cur.id, kind |-> kind] ELSE files[n]]
    /\ wrote' = wrote \cup {<<cur.id, name>>}

(* ax.table(cellText=rows, ...) takes the column count from cellText[0]:  *)
(* with no rows the subscript raises IndexError inside the except block.  *)
TableRenders(rows) == rows # <<>>

(* exec(code, {}, local_vars) and the fallback of the except block *)
ExecCode ==
    /\ cur.pc = "run_code"
    /\ LET done == [cur EXCEPT !.returned = Append(@, "visualise"), !.pc = "respond"] IN
       CASE cur.code = "saves" ->
               /\ Save(cur.img_filename, "chart")
               /\ cur' = done
         [] cur.code = "returns" ->
               /\ cur' = done
               /\ UNCHANGED <<files, wrote>>
         [] cur.code = "raises" ->
               IF TableRenders(cur.rows)
               THEN /\ Save(cur.img_filename, "table")
                    /\ cur' = done
               ELSE /\ cur' = Raise(cur, "IndexError")
                    /\ UNCHANGED <<files, wrote>>
         [] cur.code = "exits" ->
               /\ cur' = Raise(cur, "SystemExit")
               /\ UNCHANGED <<files, wrote>>
    /\ UNCHANGED <<reqNo, apiKey, clock, conns>>

RespondSampleCount ==
    /\ cur.pc = "respond"
    /\ cur' = [cur EXCEPT !.pc = "responded",
                          !.response = Ok(cur.sql, Len(cur.sample_rows))]
    /\ UNCHANGED <<reqNo, apiKey, clock, files, wrote, conns>>

(* body, print, and the JSONResponse of the success path *)
Respond ==
    /\ cur.pc = "respond"
    /\ cur' = [cur EXCEPT !.pc = "responded",
                          !.response = Ok(cur.sql, Len(cur.rows))]
    /\ UNCHANGED <<reqNo, apiKey, clock, files, wrote, conns>>

(* The wall clock moves on between any two steps *)
Tick ==
    /\ clock < MaxClock
    /\ clock' = clock + 1
    /\ UNCHANGED <<cur, reqNo, apiKey, files, wrote, conns>>

Next ==
    \/ Receive
    \/ Extract
    \/ CallGemini
    \/ RunSql
    \/ Visualise
    \/ ExecCode
    \/ Respond
    \/ Tick

Spec == Init /\ [][Next]_vars

-----------------------------------------------------------------------------
(* The sanitization of call_gemini on its own: one request that carries a  *)
(* query is at the call (the key is set), and the model may answer with    *)
(* any text put together from a few fragments.                             *)

Frags ==
    {<<"s">>, <<"q">>, <<"l">>, <<"i", "t", "e">>, SQLWORD, SQLITE, BACKTICK,
     <<"S", "Q", "L">>, <<" ">>}

RECURSIVE Concat(_)
Concat(fs) == IF fs = <<>> THEN <<>> ELSE Head(fs) \o Concat(Tail(fs))

FragTexts == {Concat(fs) : fs \in UNION {[1..n -> Frags] : n \in 0..MaxFrags}}

SanitizeInputs == ModelReplies \cup FragTexts

AtGeneration ==
    LET data == [TextBody |-> JStr("query in TextBody")] IN
    [Fresh(1, data) EXCEPT !.pc = "gen", !.nl_query = ExtractQuery(data)]

InitSanitize ==
    /\ cur = AtGeneration
    /\ reqNo = 1
    /\ apiKey = TRUE
    /\ clock = 0
    /\ files = <<>>
    /\ wrote = {}
    /\ conns = <<>>

CallGeminiAnyText == CallGeminiWith(SanitizeInputs)

NextSanitize == CallGeminiAnyText

SpecSanitize == InitSanitize /\ [][NextSanitize]_vars

-----------------------------------------------------------------------------
(* Vocabulary of the properties *)

StageOrder == <<"generate", "execute", "visualise">>

Prefix(s, t) == Len(s) <= Len(t) /\ s = SubSeq(t, 1, Len(s))

Started(stage) == \E i \in DOMAIN cur.started : cur.started[i] = stage

Returned(stage) == \E i \in DOMAIN cur.returned : cur.returned[i] = stage

Contains(text, word) ==
    \E i \in 1..(Len(text) - Len(word) + 1) : SubSeq(text, i, i + Len(word) - 1) = word

Min(a, b) == IF a <= b THEN a ELSE b

(* a field carries query text: it is there, not null and not empty *)
Present(data, k) == k \in DOMAIN data /\ data[k] # JNull /\ data[k] # JStr("")

Extracted == cur.pc \notin {"idle", "extract"}

Failed == cur.response.kind = "unhandled"

FileOf(r) == IF r.img_filename \in DOMAIN files THEN files[r.img_filename] ELSE [owner |-> 0, kind |-> "none"]

-----------------------------------------------------------------------------
(* C1: a payload in which none of TextBody, stripped-text and Body carries *)
(* query text (each absent, null or empty) is answered 400 with an error   *)
(* message, whatever else it holds, and no stage is started for it: no     *)
(* generation, no API call, no query, no connection, no image.             *)
C1_NoQueryIs400 ==
    (Extracted /\ \A k \in QueryFields : ~Present(cur.data, k)) =>
        /\ cur.pc = "responded"
        /\ cur.response.kind = "json"
        /\ cur.response.code = 400
        /\ cur.response.error # ""
        /\ cur.started = <<>>
        /\ cur.calls = 0
        /\ cur.queries = 0
        /\ \A i \in DOMAIN conns : conns[i].owner # cur.id
        /\ \A w \in wrote : w[1] # cur.id

C1_Witness ==
    /\ cur.pc = "responded"
    /\ cur.response.code = 400
    /\ "From" \in DOMAIN cur.data
    /\ "TextBody" \in DOMAIN cur.data /\ cur.data["TextBody"] = JStr("")
    /\ "Body" \in DOMAIN cur.data /\ cur.data["Body"] = JNull
    /\ "stripped-text" \notin DOMAIN cur.data

(* C2: the stages of a request start in the order generation, execution,   *)
(* visualization, each at most once, and a stage starts only after the     *)
(* stage before it has returned.                                           *)
C2_StageOrder ==
    /\ Prefix(cur.started, StageOrder)
    /\ Prefix(cur.returned, cur.started)
    /\ Len(cur.started) <= Len(cur.returned) + 1

C2_Witness ==
    /\ cur.pc = "responded"
    /\ cur.started = StageOrder
    /\ cur.returned = StageOrder
    /\ Truthy(cur.nl_query)

(* The characters no pass removes: all but those of "sqlite", the grave    *)
(* accent and white space                                                  *)
Kept(text) ==
    SelectSeq(text, LAMBDA c : c \notin {"s", "q", "l", "i", "t", "e", BQ} \cup Whitespace)

(* C3 as stated: the statement call_gemini returns contains none of        *)
(* "sqlite", the grave accent and "sql", and upper-case "SQL" is left      *)
(* alone.                                                                  *)
C3_NoneLeft ==
    Returned("generate") =>
        /\ ~Contains(cur.sql, SQLITE)
        /\ ~Contains(cur.sql, BACKTICK)
        /\ ~Contains(cur.sql, SQLWORD)
        /\ Kept(cur.sql) = Kept(cur.reply)

(* C3 amended: each of the three substrings is removed in one left-to-     *)
(* right pass, so the returned statement never contains a grave accent,    *)
(* every other character outside "sqlite" and white space is kept in       *)
(* order (upper-case "SQL" included), and "sql" is left in the result only *)
(* where the removal of an occurrence joined the text around it, so only   *)
(* in a text that lost at least three characters; "SELECT * FROM           *)
(* sql_products" becomes "SELECT * FROM _products".                        *)
C3_OnePass ==
    Returned("generate") =>
        /\ ~Contains(cur.sql, BACKTICK)
        /\ Kept(cur.sql) = Kept(cur.reply)
        /\ Contains(cur.sql, SQLWORD) => Len(cur.sql) + Len(SQLWORD) <= Len(cur.reply)
        /\ cur.reply = ReplyProducts =>
              cur.sql = <<"S", "E", "L", "E", "C", "T", " ", "*", " ", "F", "R", "O", "M",
                          " ", "_", "p", "r", "o", "d", "u", "c", "t", "s">>

C3_Witness ==
    /\ Returned("generate")
    /\ cur.reply = <<"s", "s", "q", "l", "q", "l">>
    /\ cur.sql = SQLWORD

(* C4: when running the generated code raises, visualise_and_save still    *)
(* returns with an image saved under the request's file name by the table  *)
(* rendering, for every query result, and the request is answered 200.     *)
C4_FallbackAlways ==
    (cur.code = "raises" /\ cur.pc # "run_code") =>
        /\ Returned("visualise")
        /\ FileOf(cur) = [owner |-> cur.id, kind |-> "table"]
        /\ cur.pc = "responded" => cur.response.code = 200

(* C5: the row sample of the visualization prompt is the first min(10, n)  *)
(* of the n result rows in their order: never more than 10 rows, and the   *)
(* whole result when n is at most 10.                                      *)
C5_SampleIsFirstTen ==
    Started("visualise") =>
        /\ cur.sample_rows = SubSeq(cur.rows, 1, Min(10, Len(cur.rows)))
        /\ Len(cur.sample_rows) <= 10
        /\ Len(cur.rows) <= 10 => cur.sample_rows = cur.rows

C5_Witness ==
    /\ Started("visualise")
    /\ Len(cur.rows) = 11
    /\ cur.sample_rows = RowSeq(10)

(* C6: a 200 response has status "ok", the sanitized statement that was    *)
(* executed as "sql" and the number of rows the executor returned as       *)
(* "rows" (one for SELECT COUNT( * ) FROM Orders), and is sent only after   *)
(* generation, execution and visualization have all returned.              *)
C6_OkResponse ==
    cur.response.code = 200 =>
        /\ cur.response.kind = "json"
        /\ cur.response.status = "ok"
        /\ cur.queries = 1
        /\ cur.response.sql = cur.executed
        /\ cur.response.sql = Sanitize(cur.reply)
        /\ cur.response.rows = Len(cur.rows)
        /\ cur.executed = SqlCount => cur.response.rows = 1
        /\ cur.returned = StageOrder

C6_Witness ==
    /\ cur.response.code = 200
    /\ cur.reply = ReplyAll
    /\ cur.response.sql = SqlAll
    /\ cur.response.rows = 11

(* C7: a failure of generation, of execution or of the visualization API   *)
(* call ends the request as an unhandled exception: the stage that failed  *)
(* is the last one started, there is no 200 and never a structured 500,    *)
(* no call or query is repeated, and with the API key unset no HTTP call   *)
(* and no query is made at all.                                            *)
C7_FailureIsFatal ==
    /\ ~(cur.response.kind = "json" /\ cur.response.code = 500)
    /\ cur.queries <= 1
    /\ cur.calls = (IF apiKey
                    THEN Cardinality({st \in {"generate", "visualise"} : Started(st)})
                    ELSE 0)
    /\ Failed =>
          /\ cur.pc = "responded"
          /\ cur.response.code # 200
          /\ cur.started # <<>>
          /\ cur.returned = SubSeq(cur.started, 1, Len(cur.started) - 1)
          /\ cur.queries = (IF Started("execute") THEN 1 ELSE 0)
    /\ ~apiKey => (cur.calls = 0 /\ cur.queries = 0 /\ ~Started("execute"))
    /\ (~apiKey /\ Started("generate")) => Failed

C7_Witness ==
    /\ Failed
    /\ apiKey
    /\ cur.response.error = "OperationalError"
    /\ cur.started = <<"generate", "execute">>
    /\ cur.calls = 1

(* C8: a request that reaches execution opens exactly one connection, and  *)
(* the connection is closed when run_sql is left, whether the statement    *)
(* succeeds, is rejected by the driver or yields no result set.            *)
C8_ConnectionClosed ==
    /\ Cardinality({i \in DOMAIN conns : conns[i].owner = cur.id}) = cur.queries
    /\ \A i \in DOMAIN conns : ~conns[i].open

(* C9: the query of the request is TextBody when that is present and not   *)
(* empty, else stripped-text when that is present and not empty, else      *)
(* Body, and that same text goes to generation and to the visualization    *)
(* prompt.                                                                 *)
C9_Precedence ==
    LET chosen == IF Present(cur.data, "TextBody") THEN cur.data["TextBody"]
                  ELSE IF Present(cur.data, "stripped-text") THEN cur.data["stripped-text"]
                  ELSE Get(cur.data, "Body") IN
    Extracted =>
        /\ cur.nl_query = chosen
        /\ Started("generate") => cur.gen_query = chosen
        /\ Started("visualise") => cur.viz_query = chosen

C9_Witness ==
    /\ Started("visualise")
    /\ "TextBody" \in DOMAIN cur.data /\ cur.data["TextBody"] = JStr("")
    /\ "stripped-text" \in DOMAIN cur.data /\ cur.data["stripped-text"] = JNull
    /\ cur.viz_query = JStr("query in Body")

(* C10: two requests that reach visualization write their images to        *)
(* different files, also within the same clock second.                     *)
C10_DistinctFiles ==
    \A a \in wrote, b \in wrote : a[2] = b[2] => a[1] = b[1]

====
